---- MODULE Spec2Model ----
(***************************************************************************)
(* Model of pyweather: the two forecast aggregators of forecast.py         *)
(* (HourlyForecast and Forecast) run against the provider adapters of      *)
(* api/*.py.  An aggregator run is a sequential program; every call it     *)
(* makes to an adapter is one step, and the adapter's outcome (a returned  *)
(* record, or a raised exception kind) is chosen among the outcomes the    *)
(* adapter's code can produce.                                             *)
(*                                                                         *)
(*   Spec      one construction of HourlyForecast(...) or of Forecast(...) *)
(*   SpecCall  one call of an adapter operation or of a function of        *)
(*             utils/time.py on arguments drawn from bounded sets          *)
(***************************************************************************)
EXTENDS Integers, Sequences, FiniteSets, TLC

VARIABLES
    cls,              \* which aggregator class is being constructed
    services,         \* self.services
    local_dates,      \* self.local_dates (HourlyForecast)
    DECIMAL_PLACES,   \* int(os.getenv("DECIMAL_PLACES", 2)) of the adapters
    pc,               \* position of the run in the constructor
    si,               \* index in self.services of the `for service` loop
    hi,               \* index in self.local_dates of the `for hour` loop
    forecast_object,  \* local forecast_object of _fetch_forecast
    document,         \* local `document` of HourlyForecast._fetch_forecast
    response,         \* local `response` of _fetch_forecast
    detailed,         \* self.detailed (Unset until _fetch_forecast returned)
    aggregated,       \* self.aggregated (Unset until _compute_aggregates returned)
    raised,           \* exception that left the constructor, or NoError
    current_key,      \* credential store: which key is current per key name
    nfetch,           \* number of documents handed out so far (document ids)
    calls,            \* history of the calls made to the collaborators
    call,             \* a function of the package called on its own: name and arguments
    call_result       \* what that call returned or raised (Unset before)

vars == << cls, services, local_dates, DECIMAL_PLACES, pc, si, hi,
           forecast_object, document, response, detailed, aggregated,
           raised, current_key, nfetch, calls, call, call_result >>

----------------------------------------------------------------------------
(* Bounds of the model *)

MaxServices == 2      \* longest provider list given to an aggregator
MaxHours == 2         \* longest hour range given to HourlyForecast
MaxPlaces == 3        \* DECIMAL_PLACES ranges over 0..MaxPlaces; a
                      \* temperature is an integer count of 10^-MaxPlaces degrees

----------------------------------------------------------------------------
(* Values *)

None == {}                      \* Python None: an optional value is {} or {v}
Some(v) == {v}
Unset == [unset |-> TRUE]       \* an attribute that was never assigned
NoError == "NoError"
NoDocument == 0

RECURSIVE Pow10(_)
Pow10(n) == IF n = 0 THEN 1 ELSE 10 * Pow10(n - 1)

RECURSIVE SeqSum(_)
SeqSum(s) == IF s = << >> THEN 0 ELSE Head(s) + SeqSum(Tail(s))

Range(s) == { s[i] : i \in DOMAIN s }

\* the sub-sequence of s of the elements satisfying Test
SelectIdx(s, Test(_)) == { i \in DOMAIN s : Test(s[i]) }

\* the provider modules of pyweather/api
BOM == "BOM"
MET == "MET"
ACCUWEATHER == "ACCUWEATHER"
YRNO == "YRNO"
WEATHERCOM == "WEATHERCOM"
GWC == "GWC"
AERIS == "AERIS"
AllServices == << BOM, MET, ACCUWEATHER, YRNO, WEATHERCOM, GWC, AERIS >>

\* default `services` argument of HourlyForecast.__init__
HourlyDefaultServices == << BOM, MET, ACCUWEATHER, YRNO, WEATHERCOM, GWC >>
\* default `services` argument of Forecast.__init__
ForecastDefaultServices == << BOM, MET, ACCUWEATHER, YRNO >>

----------------------------------------------------------------------------
(* Exception kinds: pyweather/exceptions.py and the Python built-ins the   *)
(* code can run into                                                       *)

HttpError == "HttpError"
BadResponse == "BadResponse"
UnexpectedFormat == "UnexpectedFormat"
OutOfRange == "OutOfRange"
MissingAPIKey == "MissingAPIKey"
AttributeError == "AttributeError"
KeyError == "KeyError"
ZeroDivisionError == "ZeroDivisionError"
UnboundLocalError == "UnboundLocalError"
NameError == "NameError"
TypeError == "TypeError"
InvalidOperation == "InvalidOperation"
JSONDecodeError == "JSONDecodeError"

----------------------------------------------------------------------------
(* Decimal arithmetic.  A temperature is an integer number of              *)
(* 10^-MaxPlaces degrees.                                                  *)

DefaultPlaces == 2      \* default of DECIMAL_PLACES in every adapter
AveragePlaces == 2      \* ndigits of the round() in _compute_aggregates

\* n / d rounded to the nearest integer, ties to the even one (d > 0):
\* the rounding of round(Decimal, ndigits)
RoundHalfEven(n, d) ==
    LET q == n \div d
        r == n % d
    IN  IF 2 * r < d THEN q
        ELSE IF 2 * r > d THEN q + 1
        ELSE IF q % 2 = 0 THEN q ELSE q + 1

\* round(Decimal(num) / den, places), as a count of 10^-MaxPlaces degrees
RoundDecimal(num, den, places) ==
    LET unit == Pow10(MaxPlaces - places)
    IN  RoundHalfEven(num, den * unit) * unit

\* source temperatures a provider may report for the hour of a single-hour
\* aggregation
RawTemperatures == { 0 - 2505, 0, 14300, 14900 }

\* source temperatures a provider document may hold for an hour of an
\* hour-range aggregation, which only stores the records: 0, which some
\* adapters treat apart, and one other value
DocumentTemperatures == { 0, 14300 }

----------------------------------------------------------------------------
(* Time.  A local hour string 'YYYY-MM-DDTHH:00' is the number of hours    *)
(* since a fixed local midnight.                                           *)

UtcOffsetHours == 10    \* "Australia/Brisbane" of locations.py
StartHours == { 13 }

Falsy(opt) == opt = None \/ opt = Some(0)
The(opt) == CHOOSE v \in opt : TRUE

hours_between_datetimes(start, end) ==
    IF end >= start THEN end - start ELSE start - end

\* variant: range(1, n + 2)
count_to_inclusive(n) == [ i \in 1..(n + 1) |-> i ]

\* range(1, n + 1)
count_to(n) == [ i \in 1..n |-> i ]

local_string_to_range_of_local_strings(time_local_start, time_local_end, next_n_hours) ==
    IF time_local_end = None /\ Falsy(next_n_hours)
    THEN << >>
    ELSE LET n == IF time_local_end # None
                  THEN hours_between_datetimes(time_local_start, The(time_local_end))
                  ELSE The(next_n_hours)
             steps == count_to(n - 1)
         IN  << time_local_start >> \o
             [ i \in DOMAIN steps |-> time_local_start + steps[i] ]

\* local_string_to_utc_string(time_local, timezone, format_standard)
local_string_to_utc_string(time_local) == time_local - UtcOffsetHours

----------------------------------------------------------------------------
(* The provider adapters, as seen by the aggregators: what each operation  *)
(* of each module can return or raise.                                     *)

\* the operations each module of pyweather/api defines
Operations(service) ==
    CASE service = BOM -> { "retrieve" }
      [] service \in { MET, ACCUWEATHER, YRNO } ->
            { "retrieve", "retrieve_document", "find_in_document" }
      [] OTHER -> { "retrieve_document", "find_in_document" }

\* exceptions fetch() of the module can raise
FetchErrors(service) ==
    CASE service = BOM -> { HttpError }
      [] service = YRNO -> { HttpError }
      [] service \in { MET, ACCUWEATHER, GWC } ->
            { HttpError, MissingAPIKey, JSONDecodeError }
      [] OTHER -> { HttpError, MissingAPIKey, BadResponse, JSONDecodeError }

\* exceptions retrieve_document() of the module can raise
RetrieveDocumentErrors(service) ==
    IF "retrieve_document" \notin Operations(service)
    THEN { AttributeError }
    ELSE FetchErrors(service) \cup
         (IF service = WEATHERCOM THEN { BadResponse } ELSE {})

\* exceptions the search of a document for one hour can raise
SearchErrors(service) ==
    CASE service = BOM ->
            { OutOfRange, BadResponse, UnexpectedFormat, NameError, UnboundLocalError }
      [] service = MET ->
            { OutOfRange, BadResponse, UnboundLocalError, InvalidOperation }
      [] service = ACCUWEATHER ->
            { OutOfRange, BadResponse, UnexpectedFormat, UnboundLocalError,
              TypeError }
      [] service = YRNO -> { BadResponse, UnboundLocalError, TypeError }
      [] service = WEATHERCOM ->
            { OutOfRange, BadResponse, UnexpectedFormat, TypeError }
      [] service = GWC ->
            { OutOfRange, BadResponse, UnexpectedFormat, UnboundLocalError }
      [] OTHER -> { OutOfRange, BadResponse }

\* exceptions find_in_document() of the module can raise
FindInDocumentErrors(service) ==
    IF "find_in_document" \notin Operations(service)
    THEN { AttributeError }
    ELSE SearchErrors(service)

\* exceptions retrieve() of the module can raise
RetrieveErrors(service) ==
    IF "retrieve" \notin Operations(service)
    THEN { AttributeError }
    ELSE FetchErrors(service) \cup SearchErrors(service)

\* an outcome of a call: a returned value or a raised exception
Return(value) == [ kind |-> "return", exc |-> NoError, value |-> value ]
Raise(exc) == [ kind |-> "raise", exc |-> exc, value |-> Unset ]
ADocument == [ document |-> TRUE ]

\* farenheit_to_celcius(raw) rounded to `places` (5/9 taken as exact)
RoundFarenheitAsCelcius(raw, places) ==
    RoundDecimal((raw - 32 * Pow10(MaxPlaces)) * 5, 9, places)

\* what an adapter does once the entry of the target hour holds the source
\* temperature `raw`:
\*   Aeris and GWC test the source value for truth and raise BadResponse on 0,
\*   BOM leaves a 0 cell out of its forecast list and so finds no entry,
\*   Yr.no tests the rounded temperature for truth and returns {"ok": False},
\*   the others return the record
Found(service, target_local_time, raw, places) ==
    LET temperature == IF service = GWC
                       THEN RoundFarenheitAsCelcius(raw, places)
                       ELSE RoundDecimal(raw, 1, places)
        record == [ ok |-> TRUE,
                    time_utc |-> local_string_to_utc_string(target_local_time),
                    temperature_celcius |-> temperature ]
    IN  CASE service \in { AERIS, GWC } /\ raw = 0 -> Raise(BadResponse)
          [] service = BOM /\ raw = 0 -> Raise(OutOfRange)
          [] service = YRNO /\ temperature = 0 -> Return([ ok |-> FALSE ])
          [] OTHER -> Return(record)

\* every outcome of service.find_in_document(location, hour, document)
FindInDocumentOutcomes(service, target_local_time, places) ==
    { Raise(e) : e \in FindInDocumentErrors(service) } \cup
    (IF "find_in_document" \in Operations(service)
     THEN { Found(service, target_local_time, raw, places) : raw \in DocumentTemperatures }
     ELSE {})

\* every outcome of service.retrieve(location, hour)
RetrieveOutcomes(service, target_local_time, places) ==
    { Raise(e) : e \in RetrieveErrors(service) } \cup
    (IF "retrieve" \in Operations(service)
     THEN { Found(service, target_local_time, raw, places) : raw \in RawTemperatures }
     ELSE {})

\* every outcome of service.retrieve_document(location): a document or an
\* exception
RetrieveDocumentOutcomes(service) ==
    { Raise(e) : e \in RetrieveDocumentErrors(service) } \cup
    (IF "retrieve_document" \in Operations(service)
     THEN { Return(ADocument) }
     ELSE {})

\* response["service"] = service.__name__
WithService(record, service) ==
    IF record.ok
    THEN [ ok |-> TRUE, time_utc |-> record.time_utc,
           temperature_celcius |-> record.temperature_celcius,
           service |-> service ]
    ELSE [ ok |-> FALSE, service |-> service ]

----------------------------------------------------------------------------
(* The credential store and its rotation hook                              *)

NumKeys == 2    \* ACCUWEATHER_API_KEY and ACCUWEATHER_API_KEY_ALT

\* KeyHandler().refresh(name): the next credential of `name` becomes current
KeyHandler_refresh(keys, name) ==
    [ keys EXCEPT ![name] = (@ + 1) % NumKeys ]

\* the key name HourlyForecast._fetch_forecast passes to refresh()
RefreshedKey(service) == ACCUWEATHER

----------------------------------------------------------------------------
(* History of the calls to the collaborators                               *)

Event(op, service, key, hour, doc, result) ==
    [ op |-> op, service |-> service, key |-> key, hour |-> hour,
      doc |-> doc, result |-> result ]

----------------------------------------------------------------------------
(* Inputs                                                                  *)

\* the providers of S in the order of AllServices
ServiceList(S) == SelectSeq(AllServices, LAMBDA x : x \in S)

\* provider lists without repetition, of at most MaxServices providers
ServiceLists ==
    { ServiceList(S) : S \in { T \in SUBSET Range(AllServices) :
                                    Cardinality(T) <= MaxServices } }

\* provider lists made of at most MaxServices consecutive providers of
\* AllServices: the lists given to HourlyForecast, whose run
\* visits every hour of the range for every provider
ServiceRuns ==
    { SubSeq(AllServices, p[1], p[2]) :
        p \in { q \in (1..Len(AllServices) + 1) \X (0..Len(AllServices)) :
                    /\ q[2] >= q[1] - 1
                    /\ q[2] - q[1] + 1 <= MaxServices } }

\* the hour ranges local_string_to_range_of_local_strings produces from a
\* start, an optional end and an optional count
HourRangesFrom(start) ==
    { local_string_to_range_of_local_strings(start, end, n) :
        end \in { None } \cup { Some(start + k) : k \in 0..MaxHours },
        n \in { None } \cup { Some(k) : k \in 0..MaxHours } }

HourRanges == UNION { HourRangesFrom(start) : start \in StartHours }

KeyNames == Range(AllServices)

InitCommon ==
    /\ si = 1
    /\ hi = 1
    /\ document = NoDocument
    /\ response = Unset
    /\ detailed = Unset
    /\ aggregated = Unset
    /\ raised = NoError
    /\ current_key = [ k \in KeyNames |-> 0 ]
    /\ nfetch = 0
    /\ calls = << >>
    /\ call = Unset
    /\ call_result = Unset

----------------------------------------------------------------------------
(* HourlyForecast.__init__ and HourlyForecast._fetch_forecast              *)

InitHourly ==
    /\ cls = "HourlyForecast"
    /\ services \in ServiceRuns \cup { HourlyDefaultServices }
    /\ local_dates \in HourRanges
    /\ DECIMAL_PLACES = DefaultPlaces
    /\ forecast_object = [ services |-> << >>, forecasts |-> << >> ]
    /\ pc = "start"
    /\ InitCommon

service == services[si]
hour == local_dates[hi]

\* for hour in self.local_dates: forecast_object["forecasts"][hour] = {}
\* variant: the loop stops one hour short
Prepopulated_short(forecasts, hours) ==
    [ h \in DOMAIN forecasts \cup Range(SubSeq(hours, 1, Len(hours) - 1)) |-> << >> ]

Prepopulated(forecasts, hours) ==
    [ h \in DOMAIN forecasts \cup Range(hours) |->
        IF h \in Range(hours) THEN << >> ELSE forecasts[h] ]

Prepopulate ==
    /\ cls = "HourlyForecast"
    /\ pc = "start"
    /\ forecast_object' =
          [ forecast_object EXCEPT
              !.forecasts = Prepopulated(forecast_object.forecasts, local_dates) ]
    /\ pc' = "service"
    /\ UNCHANGED << call, call_result, cls, services, local_dates, DECIMAL_PLACES, si, hi, document,
                    response, detailed, aggregated, raised, current_key,
                    nfetch, calls >>

\* for service in self.services:
\*     forecast_object["services"].append(service.__name__)
NextService ==
    /\ cls = "HourlyForecast"
    /\ pc = "service"
    /\ si <= Len(services)
    /\ forecast_object' =
          [ forecast_object EXCEPT !.services = Append(@, service) ]
    /\ pc' = "retrieve_document"
    /\ UNCHANGED << call, call_result, cls, services, local_dates, DECIMAL_PLACES, si, hi, document,
                    response, detailed, aggregated, raised, current_key,
                    nfetch, calls >>

\* variant: the fetched document is not bound to `document`
GotDocument_unbound ==
    /\ nfetch' = nfetch + 1
    /\ document' = document
    /\ hi' = 1
    /\ pc' = "hours"
    /\ calls' = Append(calls, Event("retrieve_document", service, "", 0,
                                    nfetch + 1, "document"))
    /\ UNCHANGED << call, call_result, cls, services, local_dates, DECIMAL_PLACES, si,
                    forecast_object, response, detailed, aggregated, raised,
                    current_key >>

\* the state after service.retrieve_document() returned a document
GotDocument ==
    /\ nfetch' = nfetch + 1
    /\ document' = nfetch + 1
    /\ hi' = 1
    /\ pc' = "hours"
    /\ calls' = Append(calls, Event("retrieve_document", service, "", 0,
                                    nfetch + 1, "document"))
    /\ UNCHANGED << call, call_result, cls, services, local_dates, DECIMAL_PLACES, si,
                    forecast_object, response, detailed, aggregated, raised,
                    current_key >>

\* an exception leaves _fetch_forecast and the constructor
Propagate(op, exc) ==
    /\ raised' = exc
    /\ pc' = "raised"
    /\ calls' = Append(calls, Event(op, service, "",
                                    IF op = "find_in_document" THEN hour ELSE 0,
                                    IF op = "find_in_document" THEN document ELSE NoDocument,
                                    exc))
    /\ UNCHANGED << call, call_result, cls, services, local_dates, DECIMAL_PLACES, si, hi,
                    forecast_object, document, response, detailed, aggregated,
                    current_key, nfetch >>

\* try: document = service.retrieve_document(self.location_object)
RetrieveDocumentReturns ==
    /\ pc = "retrieve_document"
    /\ Return(ADocument) \in RetrieveDocumentOutcomes(service)
    /\ GotDocument

\* except HttpError:
RetrieveDocumentHttpError ==
    /\ pc = "retrieve_document"
    /\ Raise(HttpError) \in RetrieveDocumentOutcomes(service)
    /\ pc' = "refresh"
    /\ calls' = Append(calls, Event("retrieve_document", service, "", 0,
                                    NoDocument, HttpError))
    /\ UNCHANGED << call, call_result, cls, services, local_dates, DECIMAL_PLACES, si, hi,
                    forecast_object, document, response, detailed, aggregated,
                    raised, current_key, nfetch >>

\* any other exception of the first retrieve_document is not caught
RetrieveDocumentRaises ==
    /\ pc = "retrieve_document"
    /\ \E exc \in RetrieveDocumentErrors(service) \ { HttpError } :
          Propagate("retrieve_document", exc)

\* variant: the rotation itself raises
Refresh_raises ==
    /\ pc = "refresh"
    /\ raised' = HttpError
    /\ pc' = "raised"
    /\ UNCHANGED << call, call_result, cls, services, local_dates, DECIMAL_PLACES, si, hi,
                    forecast_object, document, response, detailed, aggregated,
                    current_key, nfetch, calls >>

\* key = KeyHandler(); key.refresh("ACCUWEATHER")
Refresh ==
    /\ pc = "refresh"
    /\ current_key' = KeyHandler_refresh(current_key, RefreshedKey(service))
    /\ pc' = "retry"
    /\ calls' = Append(calls, Event("refresh", service, RefreshedKey(service), 0,
                                    NoDocument, "None"))
    /\ UNCHANGED << call, call_result, cls, services, local_dates, DECIMAL_PLACES, si, hi,
                    forecast_object, document, response, detailed, aggregated,
                    raised, nfetch >>

\* try: document = service.retrieve_document(self.location_object)
RetryReturns ==
    /\ pc = "retry"
    /\ Return(ADocument) \in RetrieveDocumentOutcomes(service)
    /\ GotDocument

\* variant: the HttpError of the retry is not caught
RetryHttpError_raises ==
    /\ pc = "retry"
    /\ Raise(HttpError) \in RetrieveDocumentOutcomes(service)
    /\ Propagate("retrieve_document", HttpError)

\* except HttpError: continue
RetryHttpError ==
    /\ pc = "retry"
    /\ Raise(HttpError) \in RetrieveDocumentOutcomes(service)
    /\ si' = si + 1
    /\ pc' = "service"
    /\ calls' = Append(calls, Event("retrieve_document", service, "", 0,
                                    NoDocument, HttpError))
    /\ UNCHANGED << call, call_result, cls, services, local_dates, DECIMAL_PLACES, hi,
                    forecast_object, document, response, detailed, aggregated,
                    raised, current_key, nfetch >>

\* variant: any other exception of the retry skips the provider as well
RetryRaises_skipped ==
    /\ pc = "retry"
    /\ \E exc \in RetrieveDocumentErrors(service) \ { HttpError } :
          calls' = Append(calls, Event("retrieve_document", service, "", 0,
                                       NoDocument, exc))
    /\ si' = si + 1
    /\ pc' = "service"
    /\ UNCHANGED << call, call_result, cls, services, local_dates, DECIMAL_PLACES, hi,
                    forecast_object, document, response, detailed, aggregated,
                    raised, current_key, nfetch >>

\* any other exception of the retry is not caught
RetryRaises ==
    /\ pc = "retry"
    /\ \E exc \in RetrieveDocumentErrors(service) \ { HttpError } :
          Propagate("retrieve_document", exc)

\* variant: the mapping of the hour is replaced by one that holds the
\* response only
FindInDocumentReturns_replace ==
    /\ pc = "hours"
    /\ hi <= Len(local_dates)
    /\ \E outcome \in FindInDocumentOutcomes(service, hour, DECIMAL_PLACES) :
          /\ outcome.kind = "return"
          /\ response' = WithService(outcome.value, service)
          /\ forecast_object' =
                [ forecast_object EXCEPT
                    !.forecasts[hour] = (service :> response') ]
          /\ calls' = Append(calls, Event("find_in_document", service, "", hour,
                                          document, "record")
                                    @@ [ value |-> outcome.value ])
    /\ hi' = hi + 1
    /\ UNCHANGED << call, call_result, cls, services, local_dates, DECIMAL_PLACES, pc, si, document,
                    detailed, aggregated, raised, current_key, nfetch >>

\* response = service.find_in_document(...); response["service"] = ...
\* forecast_object["forecasts"][hour][service.__name__] = response
\* (the history keeps the returned record as the `value` of the event)
FindInDocumentReturns ==
    /\ pc = "hours"
    /\ hi <= Len(local_dates)
    /\ \E outcome \in FindInDocumentOutcomes(service, hour, DECIMAL_PLACES) :
          /\ outcome.kind = "return"
          /\ response' = WithService(outcome.value, service)
          /\ forecast_object' =
                [ forecast_object EXCEPT
                    !.forecasts[hour] = (service :> response') @@ @ ]
          /\ calls' = Append(calls, Event("find_in_document", service, "", hour,
                                          document, "record")
                                    @@ [ value |-> outcome.value ])
    /\ hi' = hi + 1
    /\ UNCHANGED << call, call_result, cls, services, local_dates, DECIMAL_PLACES, pc, si, document,
                    detailed, aggregated, raised, current_key, nfetch >>

\* variant: break instead of continue
FindInDocumentOutOfRange_break ==
    /\ pc = "hours"
    /\ hi <= Len(local_dates)
    /\ Raise(OutOfRange) \in FindInDocumentOutcomes(service, hour, DECIMAL_PLACES)
    /\ hi' = Len(local_dates) + 1
    /\ calls' = Append(calls, Event("find_in_document", service, "", hour,
                                    document, OutOfRange))
    /\ UNCHANGED << call, call_result, cls, services, local_dates, DECIMAL_PLACES, pc, si,
                    forecast_object, document, response, detailed, aggregated,
                    raised, current_key, nfetch >>

\* except OutOfRange as e: continue
FindInDocumentOutOfRange ==
    /\ pc = "hours"
    /\ hi <= Len(local_dates)
    /\ Raise(OutOfRange) \in FindInDocumentOutcomes(service, hour, DECIMAL_PLACES)
    /\ hi' = hi + 1
    /\ calls' = Append(calls, Event("find_in_document", service, "", hour,
                                    document, OutOfRange))
    /\ UNCHANGED << call, call_result, cls, services, local_dates, DECIMAL_PLACES, pc, si,
                    forecast_object, document, response, detailed, aggregated,
                    raised, current_key, nfetch >>

\* variant: every exception of find_in_document is swallowed
FindInDocumentRaises_swallowed ==
    /\ pc = "hours"
    /\ hi <= Len(local_dates)
    /\ \E outcome \in FindInDocumentOutcomes(service, hour, DECIMAL_PLACES) :
          /\ outcome.kind = "raise"
          /\ outcome.exc # OutOfRange
          /\ calls' = Append(calls, Event("find_in_document", service, "", hour,
                                          document, outcome.exc))
    /\ hi' = hi + 1
    /\ UNCHANGED << call, call_result, cls, services, local_dates, DECIMAL_PLACES, pc, si,
                    forecast_object, document, response, detailed, aggregated,
                    raised, current_key, nfetch >>

\* any other exception of find_in_document is not caught
FindInDocumentRaises ==
    /\ pc = "hours"
    /\ hi <= Len(local_dates)
    /\ \E outcome \in FindInDocumentOutcomes(service, hour, DECIMAL_PLACES) :
          /\ outcome.kind = "raise"
          /\ outcome.exc # OutOfRange
          /\ Propagate("find_in_document", outcome.exc)

\* the `for hour` loop is exhausted: next service
EndOfHours ==
    /\ pc = "hours"
    /\ hi > Len(local_dates)
    /\ si' = si + 1
    /\ pc' = "service"
    /\ UNCHANGED << call, call_result, cls, services, local_dates, DECIMAL_PLACES, hi,
                    forecast_object, document, response, detailed, aggregated,
                    raised, current_key, nfetch, calls >>

\* return forecast_object; self.detailed = ...
HourlyReturn ==
    /\ cls = "HourlyForecast"
    /\ pc = "service"
    /\ si > Len(services)
    /\ detailed' = forecast_object
    /\ pc' = "done"
    /\ UNCHANGED << call, call_result, cls, services, local_dates, DECIMAL_PLACES, si, hi,
                    forecast_object, document, response, aggregated, raised,
                    current_key, nfetch, calls >>

NextHourly ==
    \/ Prepopulate
    \/ NextService
    \/ RetrieveDocumentReturns
    \/ RetrieveDocumentHttpError
    \/ RetrieveDocumentRaises
    \/ Refresh
    \/ RetryReturns
    \/ RetryHttpError
    \/ RetryRaises
    \/ FindInDocumentReturns
    \/ FindInDocumentOutOfRange
    \/ FindInDocumentRaises
    \/ EndOfHours
    \/ HourlyReturn

----------------------------------------------------------------------------
(* Forecast.__init__, Forecast._fetch_forecast, Forecast._compute_aggregates *)

\* self.local_date: the run keeps it as the only element of local_dates
local_date == local_dates[1]

InitForecast ==
    /\ cls = "Forecast"
    /\ services \in ServiceLists \cup { ForecastDefaultServices }
    /\ local_dates \in { << start >> : start \in StartHours }
    /\ DECIMAL_PLACES \in 0..MaxPlaces
    /\ forecast_object = [ services |-> << >>, forecasts |-> << >> ]
    /\ pc = "retrieve"
    /\ InitCommon

\* response = service.retrieve(self.location_object, self.local_date)
\* forecast_object["services"].append(service.__name__)
\* response["service"] = service.__name__
\* forecast_object["forecasts"].append(response)
RetrieveReturns ==
    /\ pc = "retrieve"
    /\ si <= Len(services)
    /\ \E outcome \in RetrieveOutcomes(service, local_date, DECIMAL_PLACES) :
          /\ outcome.kind = "return"
          /\ response' = WithService(outcome.value, service)
          /\ forecast_object' =
                [ services |-> Append(forecast_object.services, service),
                  forecasts |-> Append(forecast_object.forecasts, response') ]
          /\ calls' = Append(calls, Event("retrieve", service, "", local_date,
                                          NoDocument, "record"))
    /\ si' = si + 1
    /\ UNCHANGED << call, call_result, cls, services, local_dates, DECIMAL_PLACES, pc, hi, document,
                    detailed, aggregated, raised, current_key, nfetch >>

\* variant: the provider is asked again after an OutOfRange
RetrieveOutOfRange_again ==
    /\ pc = "retrieve"
    /\ si <= Len(services)
    /\ Raise(OutOfRange) \in RetrieveOutcomes(service, local_date, DECIMAL_PLACES)
    /\ Len(calls) < Len(services)
    /\ response' = [ ok |-> FALSE ]
    /\ calls' = Append(calls, Event("retrieve", service, "", local_date,
                                    NoDocument, OutOfRange))
    /\ UNCHANGED << call, call_result, cls, services, local_dates, DECIMAL_PLACES, pc,
                    si, hi, forecast_object, document, detailed, aggregated,
                    raised, current_key, nfetch >>

\* variant: the name of the provider is listed before it is asked
RetrieveOutOfRange_listed ==
    /\ pc = "retrieve"
    /\ si <= Len(services)
    /\ Raise(OutOfRange) \in RetrieveOutcomes(service, local_date, DECIMAL_PLACES)
    /\ response' = [ ok |-> FALSE ]
    /\ forecast_object' =
          [ forecast_object EXCEPT !.services = Append(@, service) ]
    /\ si' = si + 1
    /\ calls' = Append(calls, Event("retrieve", service, "", local_date,
                                    NoDocument, OutOfRange))
    /\ UNCHANGED << call, call_result, cls, services, local_dates, DECIMAL_PLACES, pc, hi,
                    document, detailed, aggregated, raised,
                    current_key, nfetch >>

\* except OutOfRange as e: response = {"ok": False}
RetrieveOutOfRange ==
    /\ pc = "retrieve"
    /\ si <= Len(services)
    /\ Raise(OutOfRange) \in RetrieveOutcomes(service, local_date, DECIMAL_PLACES)
    /\ response' = [ ok |-> FALSE ]
    /\ si' = si + 1
    /\ calls' = Append(calls, Event("retrieve", service, "", local_date,
                                    NoDocument, OutOfRange))
    /\ UNCHANGED << call, call_result, cls, services, local_dates, DECIMAL_PLACES, pc, hi,
                    forecast_object, document, detailed, aggregated, raised,
                    current_key, nfetch >>

\* any other exception of retrieve is not caught
RetrieveRaises ==
    /\ pc = "retrieve"
    /\ si <= Len(services)
    /\ \E exc \in RetrieveErrors(service) \ { OutOfRange } :
          /\ raised' = exc
          /\ pc' = "raised"
          /\ calls' = Append(calls, Event("retrieve", service, "", local_date,
                                          NoDocument, exc))
    /\ UNCHANGED << call, call_result, cls, services, local_dates, DECIMAL_PLACES, si, hi,
                    forecast_object, document, response, detailed, aggregated,
                    current_key, nfetch >>

\* return forecast_object; self.detailed = ...
ForecastReturn ==
    /\ pc = "retrieve"
    /\ si > Len(services)
    /\ detailed' = forecast_object
    /\ pc' = "compute"
    /\ UNCHANGED << call, call_result, cls, services, local_dates, DECIMAL_PLACES, si, hi,
                    forecast_object, document, response, aggregated, raised,
                    current_key, nfetch, calls >>

SeqMax(s) == CHOOSE x \in Range(s) : \A y \in Range(s) : y <= x
SeqMin(s) == CHOOSE x \in Range(s) : \A y \in Range(s) : x <= y

\* round(sum(temperatures) / len(temperatures), 2)
Average(temperatures) ==
    RoundDecimal(SeqSum(temperatures), Len(temperatures), AveragePlaces)

\* the outcome of _compute_aggregates on the forecasts of self.detailed:
\*   elt["temperature_celcius"] raises KeyError on a dict without that key,
\*   sum([]) / len([]) raises ZeroDivisionError
compute_aggregates(forecasts) ==
    IF \E i \in DOMAIN forecasts : ~ forecasts[i].ok
    THEN Raise(KeyError)
    ELSE IF forecasts = << >>
    THEN Raise(ZeroDivisionError)
    ELSE LET temperatures ==
                 [ i \in DOMAIN forecasts |-> forecasts[i].temperature_celcius ]
         IN  Return([ average |-> Average(temperatures),
                      max |-> SeqMax(temperatures),
                      min |-> SeqMin(temperatures) ])

\* self.aggregated = self._compute_aggregates()
ComputeAggregates ==
    /\ pc = "compute"
    /\ LET outcome == compute_aggregates(detailed.forecasts)
       IN  IF outcome.kind = "return"
           THEN /\ aggregated' = outcome.value
                /\ raised' = raised
                /\ pc' = "done"
           ELSE /\ aggregated' = aggregated
                /\ raised' = outcome.exc
                /\ pc' = "raised"
    /\ UNCHANGED << call, call_result, cls, services, local_dates, DECIMAL_PLACES, si, hi,
                    forecast_object, document, response, detailed,
                    current_key, nfetch, calls >>

NextForecast ==
    \/ RetrieveReturns
    \/ RetrieveOutOfRange
    \/ RetrieveRaises
    \/ ForecastReturn
    \/ ComputeAggregates

----------------------------------------------------------------------------
(* One construction of either aggregator                                   *)

Init == InitHourly \/ InitForecast

Next == NextHourly \/ NextForecast

Spec == Init /\ [][Next]_vars

----------------------------------------------------------------------------
(* utils/time.py.  An instant is a whole number of hours (of minutes for   *)
(* the forecast age); a string is the record of the fields it spells out.  *)

\* the time zones of locations.py
Brisbane == "Australia/Brisbane"
Sydney == "Australia/Sydney"
Melbourne == "Australia/Melbourne"
Timezones == { Brisbane, Sydney, Melbourne }

\* UTC hours at which daylight saving time ends and starts again in
\* Australia/Sydney and Australia/Melbourne
DstEnd == 16
DstStart == 40

\* offset of local time to UTC, in hours, in force at the instant `utc`
utc_offset(timezone, utc) ==
    IF timezone = Brisbane THEN UtcOffsetHours
    ELSE IF utc < DstEnd \/ utc >= DstStart THEN UtcOffsetHours + 1
    ELSE UtcOffsetHours

\* the instants whose wall clock in `timezone` reads `wall`
InstantsAt(timezone, wall) ==
    { utc \in (wall - UtcOffsetHours - 2)..(wall - UtcOffsetHours + 1) :
         utc + utc_offset(timezone, utc) = wall }

SetMax(S) == CHOOSE x \in S : \A y \in S : y <= x

\* pendulum.parse(time_local, tz=timezone): a wall clock that occurs twice is
\* the later instant, one that is skipped is shifted by the offset in force
\* before the gap
pendulum_parse(time_local, timezone) ==
    IF InstantsAt(timezone, time_local) # {}
    THEN SetMax(InstantsAt(timezone, time_local))
    ELSE time_local - utc_offset(timezone, DstStart - 1)

\* the format functions: what the produced value spells out
format_standard(datetime_utc) ==
    [ style |-> "YYYY-MM-DDTHH:mm:ssZ", utc |-> datetime_utc ]
format_bom(datetime_utc) == format_standard(datetime_utc)
format_met(datetime_utc) ==
    [ style |-> "YYYY-MM-DDTHH:mmZ", utc |-> datetime_utc ]
format_accuweather(datetime_utc) == datetime_utc * 3600
format_yrno(datetime_utc) ==
    << format_standard(datetime_utc), format_standard(datetime_utc + 1) >>

\* format_func(datetime_utc), the format function being given by its name
format(format_func, datetime_utc) ==
    CASE format_func = "format_accuweather" -> format_accuweather(datetime_utc)
      [] format_func = "format_met" -> format_met(datetime_utc)
      [] format_func = "format_yrno" -> format_yrno(datetime_utc)
      [] format_func = "format_bom" -> format_bom(datetime_utc)
      [] OTHER -> format_standard(datetime_utc)

\* local_string_to_utc_string(time_local, timezone, format_func) for any
\* time zone and format
local_string_to_utc_string_in(time_local, timezone, format_func) ==
    format(format_func, pendulum_parse(time_local, timezone))

local_string_to_weathercom_string(time_local, timezone) ==
    LET dt_local == pendulum_parse(time_local, timezone)
    IN  [ style |-> "YYYY-MM-DDTHH:mm:ssZZ",
          wall |-> dt_local + utc_offset(timezone, dt_local),
          offset |-> utc_offset(timezone, dt_local) ]

local_string_to_aeris_string(time_local, timezone) ==
    LET dt_local == pendulum_parse(time_local, timezone)
    IN  [ style |-> "YYYY-MM-DDTHH:mm:ssZ",
          wall |-> dt_local + utc_offset(timezone, dt_local),
          offset |-> utc_offset(timezone, dt_local) ]

local_string_to_gwc_string_search(time_local, timezone) ==
    LET dt_local == pendulum_parse(time_local, timezone)
    IN  [ style |-> "ddd MMM DD HH:mm:ss YYYY",
          wall |-> dt_local + utc_offset(timezone, dt_local) ]

\* target_time_formatted of the adapter: the encoding of the target hour that
\* is compared with the times of the document
target_time_formatted(provider, time_local, timezone) ==
    CASE provider = ACCUWEATHER ->
            local_string_to_utc_string_in(time_local, timezone, "format_accuweather")
      [] provider = MET ->
            local_string_to_utc_string_in(time_local, timezone, "format_met")
      [] provider = YRNO ->
            local_string_to_utc_string_in(time_local, timezone, "format_yrno")
      [] provider = WEATHERCOM -> local_string_to_weathercom_string(time_local, timezone)
      [] provider = AERIS -> local_string_to_aeris_string(time_local, timezone)
      [] provider = GWC -> local_string_to_gwc_string_search(time_local, timezone)
      [] OTHER ->
            local_string_to_utc_string_in(time_local, timezone, "format_bom")

\* target_time_utc of the adapter: the time_utc of its record
target_time_utc(time_local, timezone) ==
    local_string_to_utc_string_in(time_local, timezone, "format_standard")

\* now.diff(then).in_hours(), with both instants in minutes: an int
hours_since_utc_datetime(then, now) ==
    LET in_minutes == IF now >= then THEN now - then ELSE then - now
    IN  [ type |-> "int", whole |-> in_minutes \div 60, tenths |-> 0 ]

\* now.diff(then).in_minutes() / 10: a true division, whose float result is
\* kept as its whole part and its tenths
decaminutes_since_utc_datetime(then, now) ==
    LET in_minutes == IF now >= then THEN now - then ELSE then - now
    IN  [ type |-> "float", whole |-> in_minutes \div 10,
          tenths |-> in_minutes % 10 ]

----------------------------------------------------------------------------
(* The search of a well-formed provider document for the target hour: the  *)
(* body shared by retrieve (on the document it fetched) and                *)
(* find_in_document.  A document is the list of its entries in             *)
(* chronological order, an entry a local hour and a source temperature     *)
(* (None for a JSON null or an empty BOM cell).                            *)

MaxEntries == 2    \* longest document

SetMin(S) == CHOOSE x \in S : \A y \in S : x <= y

\* a raised OutOfRange, with the hour its message gives as the latest one
RaiseOutOfRange(latest) ==
    [ kind |-> "raise", exc |-> OutOfRange, value |-> [ latest |-> latest ] ]

\* variant: a null source temperature is passed on in a record
FoundNull_record(provider, target_local_time) ==
    Return([ ok |-> TRUE,
             time_utc |-> local_string_to_utc_string(target_local_time) ])

\* what an adapter does once the entry of the target hour holds no source
\* temperature: Decimal(None) raises TypeError, Decimal(str(None))
\* InvalidOperation, Aeris and GWC test the value for truth
FoundNull(provider, target_local_time) ==
    CASE provider \in { AERIS, GWC } -> Raise(BadResponse)
      [] provider = MET -> Raise(InvalidOperation)
      [] OTHER -> Raise(TypeError)

\* the hour the message of OutOfRange gives as the latest of the document:
\* the time of the last entry as a UTC hour; parse_gwc reads the local
\* string of GWC as UTC and prints its wall clock in the time zone
latest_time(provider, forecasts) ==
    LET last == forecasts[Len(forecasts)].time
    IN  IF provider = GWC
        THEN last + UtcOffsetHours
        ELSE local_string_to_utc_string(last)

\* what an adapter does when no entry of the document matches the target
\* hour: Yr.no finds no <time> node and raises BadResponse; the for ... else
\* of the others reads the loop variable, which is unbound after an empty
\* list; Aeris and Weather.com reject an empty list before the loop
NotFound(provider, forecasts) ==
    IF provider = YRNO THEN Raise(BadResponse)
    ELSE IF forecasts = << >>
    THEN (IF provider \in { AERIS, WEATHERCOM }
          THEN Raise(BadResponse)
          ELSE Raise(UnboundLocalError))
    ELSE RaiseOutOfRange(latest_time(provider, forecasts))

\* the search of `forecasts` for the target hour; soup_to_forecast_object of
\* BOM keeps only the cells whose temperature is truthy
extract(provider, target_local_time, forecasts, places) ==
    LET kept == IF provider = BOM
                THEN SelectSeq(forecasts, LAMBDA e : ~ Falsy(e.temperature))
                ELSE forecasts
        matching == { i \in DOMAIN kept : kept[i].time = target_local_time }
    IN  IF matching = {}
        THEN NotFound(provider, kept)
        ELSE LET entry == kept[SetMin(matching)]
             IN  IF entry.temperature = None
                 THEN FoundNull(provider, target_local_time)
                 ELSE Found(provider, target_local_time,
                            The(entry.temperature), places)

----------------------------------------------------------------------------
(* fetch() of an adapter, as a function of what the HTTP request returned  *)

\* the adapters that read the body with r.json(); the others keep r.text
JsonAdapters == { ACCUWEATHER, MET, WEATHERCOM, GWC, AERIS }

\* the adapters whose fetch reads an API key with find_key
KeyedAdapters == { ACCUWEATHER, MET, WEATHERCOM, GWC, AERIS }

\* a response body: of no byte, an empty JSON value, or a forecast
Bodies == { "none", "empty_json", "content" }

EmptyDocument == [ document |-> FALSE ]

\* the request returned a success status and nothing to read
BodyIsEmpty(provider, body) ==
    \/ body = "none"
    \/ body = "empty_json" /\ provider \in JsonAdapters

fetch(provider, has_key, status_ok, body) ==
    IF provider \in KeyedAdapters /\ ~ has_key THEN Raise(MissingAPIKey)
    ELSE IF ~ status_ok THEN Raise(HttpError)
    ELSE IF provider \in JsonAdapters /\ body = "none" THEN Raise(JSONDecodeError)
    ELSE IF provider \in { WEATHERCOM, AERIS } /\ body = "empty_json"
    THEN Raise(BadResponse)
    ELSE IF BodyIsEmpty(provider, body) THEN Return(EmptyDocument)
    ELSE Return(ADocument)


----------------------------------------------------------------------------
(* soup_to_forecast_object of api/bom.py.  A page is the list of its day   *)
(* blocks, a day block the hour labels of its table head and the cells of  *)
(* its "Air temperature" row; a cell is an en dash, an em dash or a        *)
(* number.                                                                 *)

EnDash == [ text |-> "en dash", number |-> 0 ]
EmDash == [ text |-> "em dash", number |-> 0 ]
Number(raw) == [ text |-> "number", number |-> raw ]

\* parse_string_temperature(raw_string): None for the en dash, the Decimal
\* of a number, UnexpectedFormat for what Decimal() rejects
parse_string_temperature(raw_string) ==
    IF raw_string = EnDash THEN Return(None)
    ELSE IF raw_string.text = "number" THEN Return(Some(raw_string.number))
    ELSE Raise(UnexpectedFormat)

\* for time, temperature in zip(...): if temperature: forecasts.append(...)
RECURSIVE zip_truthy(_, _)
zip_truthy(labels, temperatures) ==
    IF labels = << >> \/ temperatures = << >> THEN << >>
    ELSE (IF Falsy(Head(temperatures))
          THEN << >>
          ELSE << [ time |-> Head(labels), temperature |-> Head(temperatures) ] >>)
         \o zip_truthy(Tail(labels), Tail(temperatures))

\* the body of `for day in days` for one day block: a head without label
\* and a row without cell are rejected, the cells are parsed, then counted
\* against the labels (the raise of that test names BadReponse, which
\* bom.py does not define), then paired with the labels
day_forecasts(day) ==
    LET parsed == [ i \in DOMAIN day.cells |-> parse_string_temperature(day.cells[i]) ]
    IN  IF day.labels = << >> \/ day.cells = << >>
        THEN Raise(BadResponse)
        ELSE IF \E i \in DOMAIN parsed : parsed[i].kind = "raise"
        THEN Raise(UnexpectedFormat)
        ELSE IF Len(day.labels) # Len(day.cells)
        THEN Raise(NameError)
        ELSE Return(zip_truthy(day.labels,
                               [ i \in DOMAIN parsed |-> parsed[i].value ]))

\* soup_to_forecast_object(soup, timezone)["forecasts"]
RECURSIVE soup_to_forecast_object(_)
soup_to_forecast_object(days) ==
    IF days = << >> THEN Return(<< >>)
    ELSE LET first == day_forecasts(Head(days))
             others == soup_to_forecast_object(Tail(days))
         IN  IF first.kind = "raise" THEN first
             ELSE IF others.kind = "raise" THEN others
             ELSE Return(first.value \o others.value)


----------------------------------------------------------------------------
(* The <time> nodes of a Yr.no document (api/yrno.py)                      *)
(* The point data of the document is the list of its <time                 *)
(* datatype="forecast"> nodes in document order, a node its `from` and     *)
(* `to` attributes and the value of its temperature element (None when     *)
(* the node has none).                                                     *)

\* BeautifulSoup's match of an attribute against a searched tuple of
\* strings: the attribute matches when it equals one element of the tuple
attr_matches(attribute, searched) ==
    \E i \in DOMAIN searched : attribute = searched[i]

\* pointdata.find(name="time", attrs={"datatype": "forecast",
\* "from": target_time_formatted, "to": target_time_formatted}): the
\* positions of the nodes that match; find returns the first
pointdata_find(nodes, searched) ==
    { i \in DOMAIN nodes : /\ attr_matches(nodes[i].from, searched)
                           /\ attr_matches(nodes[i].to, searched) }

\* find_in_document of Yr.no from the lookup of the node on: no node raises
\* BadResponse, a node without temperature element subscripts None
yrno_find_in_document(target_local_time, nodes, places) ==
    LET searched == local_string_to_utc_string_in(target_local_time, Brisbane,
                                                  "format_yrno")
        forecast == pointdata_find(nodes, searched)
    IN  IF forecast = {}
        THEN Raise(BadResponse)
        ELSE LET temperature == nodes[SetMin(forecast)].temperature
             IN  IF temperature = None
                 THEN Raise(TypeError)
                 ELSE Found(YRNO, target_local_time, The(temperature), places)


----------------------------------------------------------------------------
(* retrieve_document of Weather.com (api/weathercom.py) and the            *)
(* conversions of utils/conversions.py                                     *)
(* A Decimal that the conversions produce is the fraction num/den of a     *)
(* number of 10^-MaxPlaces degrees (5/9 taken as exact).  A document is    *)
(* its processTime list and its temperature series, None when the key is   *)
(* missing; an element of a series is None for a JSON null.                *)

Fraction(n) == [ num |-> n, den |-> 1 ]

farenheit_to_celcius(temperature) ==
    [ num |-> (temperature.num - 32 * Pow10(MaxPlaces) * temperature.den) * 5,
      den |-> temperature.den * 9 ]

celcius_to_farenheit(temperature) ==
    [ num |-> temperature.num * 9 + 32 * Pow10(MaxPlaces) * temperature.den * 5,
      den |-> temperature.den * 5 ]

\* (celcius_in_farenheit + farenheit) / 2
half_sum(celcius_in_farenheit, farenheit) ==
    [ num |-> celcius_in_farenheit.num * farenheit.den
                 + farenheit.num * celcius_in_farenheit.den,
      den |-> 2 * celcius_in_farenheit.den * farenheit.den ]

\* zip(left, right): the pairs up to the end of the shorter list
zip(left, right) ==
    [ i \in 1..(IF Len(left) < Len(right) THEN Len(left) ELSE Len(right)) |->
        << left[i], right[i] >> ]

\* the number of fetches retrieve_document makes: the Celsius fetch follows
\* the Fahrenheit one unless that one raised
weathercom_fetches(doc_farenheit) ==
    IF doc_farenheit.kind = "raise" THEN 1 ELSE 2

\* retrieve_document(location_object), as a function of the outcomes of its
\* fetch(units="e") and fetch(units="m")
weathercom_retrieve_document(doc_farenheit, doc_celcius) ==
    IF doc_farenheit.kind = "raise" THEN doc_farenheit
    ELSE IF doc_celcius.kind = "raise" THEN doc_celcius
    ELSE LET farenheit == doc_farenheit.value.temperature
             celcius == doc_celcius.value.temperature
         IN  IF \/ farenheit = None \/ farenheit = Some(<< >>)
                \/ celcius = None \/ celcius = Some(<< >>)
             THEN Raise(BadResponse)
             ELSE IF \/ \E i \in DOMAIN The(farenheit) : The(farenheit)[i] = None
                     \/ \E i \in DOMAIN The(celcius) : The(celcius)[i] = None
             THEN Raise(InvalidOperation)
             ELSE LET in_farenheit ==
                          [ i \in DOMAIN The(celcius) |->
                              celcius_to_farenheit(Fraction(The(The(celcius)[i]))) ]
                      decimals ==
                          [ i \in DOMAIN The(farenheit) |->
                              Fraction(The(The(farenheit)[i])) ]
                      pairs == zip(in_farenheit, decimals)
                      celcius_average ==
                          [ i \in DOMAIN pairs |->
                              farenheit_to_celcius(half_sum(pairs[i][1], pairs[i][2])) ]
                  IN  Return([ doc_celcius.value EXCEPT
                                 !.temperature = Some(celcius_average) ])

----------------------------------------------------------------------------
(* A function of the package called on its own                             *)

\* local hours given as targets: an ordinary one, one that occurs twice and
\* one that is skipped where daylight saving time applies
LocalHours == { 13, DstEnd + UtcOffsetHours, DstStart + UtcOffsetHours }

\* minutes between the instant of a forecast issue and now
ElapsedMinutes == { 0, 9, 10, 25, 59, 60, 61, 125 }

RangeCalls ==
    { [ op |-> "local_string_to_range_of_local_strings",
        time_local_start |-> start, time_local_end |-> end, next_n_hours |-> n ] :
        start \in StartHours,
        end \in { None } \cup { Some(k) : k \in 13..(13 + MaxHours) },
        n \in { None } \cup { Some(k) : k \in 0..MaxHours } }

TargetTimeCalls ==
    { [ op |-> "target_time", service |-> s, time_local |-> t, timezone |-> z ] :
        s \in Range(AllServices), t \in LocalHours, z \in Timezones }

SinceCalls ==
    { [ op |-> f, then |-> 600, now |-> 600 + m ] :
        f \in { "hours_since_utc_datetime", "decaminutes_since_utc_datetime" },
        m \in ElapsedMinutes }

\* the hours of the entries of a document: before, at and after the target
EntryHours == 12..14

Entries ==
    [ time : EntryHours,
      temperature : { None } \cup { Some(raw) : raw \in RawTemperatures } ]

\* the well-formed documents of at most MaxEntries entries
Documents ==
    UNION { { d \in [ 1..k -> Entries ] :
                \A i, j \in 1..k : i < j => d[i].time < d[j].time } :
            k \in 0..MaxEntries }

ExtractCalls ==
    { c \in [ op : { "retrieve", "find_in_document" },
              service : Range(AllServices),
              target_local_time : StartHours,
              forecasts : Documents ] :
         c.op \in Operations(c.service) }

FetchCalls ==
    [ op : { "fetch" }, service : Range(AllServices), has_key : BOOLEAN,
      status_ok : BOOLEAN, body : Bodies ]


\* the cells of a BOM temperature row
BomCells == { EnDash, EmDash, Number(0), Number(14300) }

\* strictly increasing lists of at most MaxEntries hour labels
BomLabels ==
    UNION { { l \in [ 1..k -> EntryHours ] :
                \A i, j \in 1..k : i < j => l[i] < l[j] } : k \in 0..MaxEntries }

BomDays ==
    [ labels : BomLabels,
      cells : UNION { [ 1..k -> BomCells ] : k \in 0..MaxEntries } ]

\* a well-formed day block of the day before
DayBefore == [ labels |-> << 11 >>, cells |-> << Number(14900) >> ]

\* the pages: one day block, possibly after a well-formed one
BomPages ==
    { << d >> : d \in BomDays } \cup { << DayBefore, d >> : d \in BomDays }

SoupCalls == [ op : { "soup_to_forecast_object" }, days : BomPages ]


\* the bounds of a <time> node: the target hour of StartHours in UTC, the
\* hour after it and the one after that
NodeBounds == { format_standard(h) : h \in 3..5 }

TimeNodes ==
    [ from : NodeBounds, to : NodeBounds,
      temperature : { None, Some(14300), Some(14900) } ]

YrnoDocuments == UNION { [ 1..k -> TimeNodes ] : k \in 0..MaxEntries }

YrnoCalls ==
    [ op : { "yrno.find_in_document" }, target_local_time : StartHours,
      nodes : YrnoDocuments ]


\* the series of at most MaxEntries elements over `values`, and a missing one
SeriesOf(values) ==
    { None } \cup
    { Some(s) : s \in UNION { [ 1..k -> { None } \cup { Some(v) : v \in values } ] :
                              k \in 0..MaxEntries } }

\* a Weather.com document: processTime has one hour per temperature
WeathercomDocument(series) ==
    [ processTime |-> IF series = None THEN << >>
                      ELSE [ i \in 1..Len(The(series)) |-> 12 + i ],
      temperature |-> series ]

WeathercomCalls ==
    [ op : { "weathercom.retrieve_document" },
      farenheit : { Raise(HttpError) } \cup
                  { Return(WeathercomDocument(s)) : s \in SeriesOf({ 57740 }) },
      celcius : { Raise(HttpError) } \cup
                { Return(WeathercomDocument(s)) : s \in SeriesOf({ 0, 14300 }) } ]

InitCallCommon ==
    /\ cls = "call"
    /\ services = << >>
    /\ local_dates = << >>
    /\ forecast_object = [ services |-> << >>, forecasts |-> << >> ]
    /\ pc = "call"
    /\ si = 1
    /\ hi = 1
    /\ document = NoDocument
    /\ response = Unset
    /\ detailed = Unset
    /\ aggregated = Unset
    /\ raised = NoError
    /\ current_key = [ k \in KeyNames |-> 0 ]
    /\ nfetch = 0
    /\ calls = << >>
    /\ call_result = Unset

InitCall ==
    /\ InitCallCommon
    /\ \/ call \in RangeCalls /\ DECIMAL_PLACES = DefaultPlaces
       \/ call \in TargetTimeCalls /\ DECIMAL_PLACES = DefaultPlaces
       \/ call \in SinceCalls /\ DECIMAL_PLACES = DefaultPlaces
       \/ call \in ExtractCalls /\ DECIMAL_PLACES \in 0..MaxPlaces
       \/ call \in FetchCalls /\ DECIMAL_PLACES = DefaultPlaces
       \/ call \in WeathercomCalls /\ DECIMAL_PLACES = DefaultPlaces
       \/ call \in YrnoCalls /\ DECIMAL_PLACES = DefaultPlaces
       \/ call \in SoupCalls /\ DECIMAL_PLACES = DefaultPlaces

\* the call returns or raises `outcome`
Returned(outcome) ==
    /\ call_result' = outcome
    /\ pc' = "returned"
    /\ UNCHANGED << call, cls, services, local_dates, DECIMAL_PLACES, si, hi,
                    forecast_object, document, response, detailed, aggregated,
                    raised, current_key, nfetch, calls >>

\* local_string_to_range_of_local_strings(start, end, n)
CallRange ==
    /\ pc = "call"
    /\ call.op = "local_string_to_range_of_local_strings"
    /\ Returned(Return(local_string_to_range_of_local_strings(
                  call.time_local_start, call.time_local_end, call.next_n_hours)))

\* the two conversions of the target hour at the top of an adapter's
\* find_in_document
CallTargetTime ==
    /\ pc = "call"
    /\ call.op = "target_time"
    /\ Returned(Return(
          [ target_time_utc |-> target_time_utc(call.time_local, call.timezone),
            target_time_formatted |->
                target_time_formatted(call.service, call.time_local, call.timezone) ]))

CallHoursSince ==
    /\ pc = "call"
    /\ call.op = "hours_since_utc_datetime"
    /\ Returned(Return(hours_since_utc_datetime(call.then, call.now)))

CallDecaminutesSince ==
    /\ pc = "call"
    /\ call.op = "decaminutes_since_utc_datetime"
    /\ Returned(Return(decaminutes_since_utc_datetime(call.then, call.now)))

\* retrieve(location, hour), on the document its fetch returned, or
\* find_in_document(location, hour, document)
CallExtract ==
    /\ pc = "call"
    /\ call.op \in { "retrieve", "find_in_document" }
    /\ Returned(extract(call.service, call.target_local_time, call.forecasts,
                        DECIMAL_PLACES))

\* fetch(location)
CallFetch ==
    /\ pc = "call"
    /\ call.op = "fetch"
    /\ Returned(fetch(call.service, call.has_key, call.status_ok, call.body))


\* soup_to_forecast_object(soup, timezone)
CallSoupToForecastObject ==
    /\ pc = "call"
    /\ call.op = "soup_to_forecast_object"
    /\ Returned(soup_to_forecast_object(call.days))


\* yrno.find_in_document(location, hour, document)
CallYrnoFindInDocument ==
    /\ pc = "call"
    /\ call.op = "yrno.find_in_document"
    /\ Returned(yrno_find_in_document(call.target_local_time, call.nodes,
                                      DECIMAL_PLACES))


\* weathercom.retrieve_document(location)
CallWeathercomRetrieveDocument ==
    /\ pc = "call"
    /\ call.op = "weathercom.retrieve_document"
    /\ call_result' = weathercom_retrieve_document(call.farenheit, call.celcius)
    /\ nfetch' = weathercom_fetches(call.farenheit)
    /\ pc' = "returned"
    /\ UNCHANGED << call, cls, services, local_dates, DECIMAL_PLACES, si, hi,
                    forecast_object, document, response, detailed, aggregated,
                    raised, current_key, calls >>

NextCall ==
    \/ CallFetch
    \/ CallExtract
    \/ CallRange
    \/ CallTargetTime
    \/ CallHoursSince
    \/ CallDecaminutesSince
    \/ CallWeathercomRetrieveDocument
    \/ CallYrnoFindInDocument
    \/ CallSoupToForecastObject

SpecCall == InitCall /\ [][NextCall]_vars

----------------------------------------------------------------------------
(* Vocabulary of the properties                                            *)

Hourly == cls = "HourlyForecast"
Single == cls = "Forecast"

\* position of a provider in self.services (the lists hold no provider twice)
IndexOf(p) == CHOOSE i \in DOMAIN services : services[i] = p

\* position of an hour in self.local_dates
HourIndex(h) == CHOOSE i \in DOMAIN local_dates : local_dates[i] = h

\* positions in the history of the calls made while `p` was the loop's provider
CallsOf(p) == { i \in DOMAIN calls : calls[i].service = p }

\* the calls made while `p` was the loop's provider, in order
HistoryOf(p) == SelectSeq(calls, LAMBDA e : e.service = p)

IsRaise(e) == e.result \notin { "record", "document", "None" }

\* the raises the aggregators catch
IsTolerated(e) ==
    \/ e.result = OutOfRange /\ e.op \in { "retrieve", "find_in_document" }
    \/ e.result = HttpError /\ e.op = "retrieve_document" /\ Hourly

IsFatal(e) == IsRaise(e) /\ ~ IsTolerated(e)

\* the provider mappings of the hour-range result that hold a cell
Cells(forecasts) ==
    { << h, p >> \in (DOMAIN forecasts) \X Range(AllServices) :
         p \in DOMAIN forecasts[h] }

----------------------------------------------------------------------------
(* C1: once the hours are pre-populated, the key set of                    *)
(* forecast_object["forecasts"] is exactly the set of requested hours, in  *)
(* every later state of the run and in the returned self.detailed,         *)
(* whatever the providers do.                                              *)
C1_StableHourKeys ==
    Hourly =>
      /\ pc # "start" => DOMAIN forecast_object.forecasts = Range(local_dates)
      /\ detailed # Unset => DOMAIN detailed.forecasts = Range(local_dates)

\* a returned hour-range result after a transport failure, a NotFound and a
\* stored record
C1_Witness ==
    /\ Hourly
    /\ pc = "done"
    /\ Len(local_dates) >= 2
    /\ DOMAIN detailed.forecasts = Range(local_dates)
    /\ \E i \in DOMAIN calls : calls[i].result = HttpError
    /\ \E i \in DOMAIN calls : calls[i].result = OutOfRange
    /\ Cells(detailed.forecasts) # {}

----------------------------------------------------------------------------
(* C2: per provider, refresh() is requested at most once and only right    *)
(* after the provider's first retrieve_document raised HttpError; it is    *)
(* followed by exactly one retry, so retrieve_document is attempted at     *)
(* most twice; when the retry raises HttpError too, find_in_document is    *)
(* never called for the provider, nothing is raised and the loop goes on   *)
(* with the next provider.                                                 *)
C2_RotateOnceRetryOnce ==
    Hourly =>
      \A p \in Range(services) :
        LET ev == HistoryOf(p)
            fetches == { i \in DOMAIN ev : ev[i].op = "retrieve_document" }
            rotations == { i \in DOMAIN ev : ev[i].op = "refresh" }
            retrying == pc = "retry" /\ service = p
            skipped == Len(ev) >= 3 /\ ev[3].result = HttpError
        IN  /\ Cardinality(rotations) <= 1
            /\ Cardinality(fetches) <= 2
            /\ \A i \in rotations :
                  /\ i = 2
                  /\ ev[1].op = "retrieve_document"
                  /\ ev[1].result = HttpError
            /\ \A i \in fetches : i = 1 \/ (i = 3 /\ 2 \in rotations)
            /\ (rotations # {} /\ ~ retrying) => Cardinality(fetches) = 2
            /\ skipped =>
                  /\ Len(ev) = 3
                  /\ \A h \in DOMAIN forecast_object.forecasts :
                        p \notin DOMAIN forecast_object.forecasts[h]
                  /\ Len(calls) \in CallsOf(p) =>
                        /\ raised = NoError
                        /\ pc \in { "service", "retrieve_document", "done" }
                        /\ si = IndexOf(p) + 1
                  /\ \A j \in DOMAIN calls :
                        (j - 1 \in CallsOf(p) /\ j \notin CallsOf(p)) =>
                           /\ IndexOf(p) < Len(services)
                           /\ calls[j].service = services[IndexOf(p) + 1]
                           /\ calls[j].op = "retrieve_document"

\* a provider was skipped after a failed retry and the next provider's
\* document was searched
C2_Witness ==
    /\ Hourly
    /\ pc = "done"
    /\ \E p \in Range(services) :
          /\ Len(HistoryOf(p)) = 3
          /\ HistoryOf(p)[2].op = "refresh"
          /\ HistoryOf(p)[3].result = HttpError
          /\ IndexOf(p) < Len(services)
          /\ \E i \in CallsOf(services[IndexOf(p) + 1]) :
                calls[i].op = "find_in_document"

----------------------------------------------------------------------------
(* C3: when find_in_document raises OutOfRange for provider P at hour h,   *)
(* the cell forecasts[h][P] stays absent, nothing is raised, and the next  *)
(* call is find_in_document of P for the next hour of the range or, after  *)
(* the last hour, retrieve_document of the next provider.                  *)
C3_NotFoundSwallowed ==
    Hourly =>
      \A i \in DOMAIN calls :
        LET e == calls[i]
            lastHour == HourIndex(e.hour) = Len(local_dates)
            lastProvider == IndexOf(e.service) = Len(services)
        IN  (e.op = "find_in_document" /\ e.result = OutOfRange) =>
              /\ e.service \notin DOMAIN forecast_object.forecasts[e.hour]
              /\ i = Len(calls) => (raised = NoError /\ pc # "raised")
              /\ (i < Len(calls) /\ ~ lastHour) =>
                    /\ calls[i + 1].op = "find_in_document"
                    /\ calls[i + 1].service = e.service
                    /\ calls[i + 1].hour = local_dates[HourIndex(e.hour) + 1]
              /\ (i < Len(calls) /\ lastHour) =>
                    /\ ~ lastProvider
                    /\ calls[i + 1].op = "retrieve_document"
                    /\ calls[i + 1].service = services[IndexOf(e.service) + 1]
              /\ (pc = "done" /\ ~ (lastHour /\ lastProvider)) => i < Len(calls)

\* a NotFound at one hour, a record of the same provider at the next hour and
\* a record of a later provider
C3_Witness ==
    /\ Hourly
    /\ pc = "done"
    /\ \E i \in DOMAIN calls :
          /\ calls[i].op = "find_in_document"
          /\ calls[i].result = OutOfRange
          /\ i < Len(calls)
          /\ calls[i + 1].service = calls[i].service
          /\ calls[i + 1].result = "record"
          /\ \E j \in DOMAIN calls :
                /\ j > i
                /\ calls[j].service # calls[i].service
                /\ calls[j].result = "record"

----------------------------------------------------------------------------
(* C4: in both aggregators an adapter exception that is not caught         *)
(* (anything but OutOfRange of retrieve / find_in_document and, in the     *)
(* hour-range aggregator, HttpError of retrieve_document) is the last call *)
(* of the run: it leaves the constructor, and neither self.detailed nor    *)
(* self.aggregated is ever assigned.                                       *)
C4_FatalAborts ==
    \A i \in DOMAIN calls :
      IsFatal(calls[i]) =>
        /\ i = Len(calls)
        /\ raised = calls[i].result
        /\ pc = "raised"
        /\ detailed = Unset
        /\ aggregated = Unset

\* a fatal exception after a cell was stored and before the last provider
C4_Witness ==
    /\ Hourly
    /\ pc = "raised"
    /\ IsFatal(calls[Len(calls)])
    /\ calls[Len(calls)].op = "find_in_document"
    /\ Cells(forecast_object.forecasts) # {}
    /\ si < Len(services)
    /\ detailed = Unset

----------------------------------------------------------------------------
(* C5: while every retrieve_document of the run raised HttpError (first    *)
(* attempt and retry of every provider), nothing is raised, and the run    *)
(* ends with every requested hour mapped to an empty provider mapping.     *)
OnlyTransportFailures ==
    \A i \in DOMAIN calls :
       \/ calls[i].op = "refresh"
       \/ calls[i].op = "retrieve_document" /\ calls[i].result = HttpError

C5_AllTransportFailures ==
    (Hourly /\ OnlyTransportFailures) =>
       /\ raised = NoError
       /\ pc # "raised"
       /\ pc # "start" =>
             forecast_object.forecasts = [ h \in Range(local_dates) |-> << >> ]
       /\ (pc = "done" /\ \A p \in Range(services) : Len(HistoryOf(p)) = 3) =>
             detailed.forecasts = [ h \in Range(local_dates) |-> << >> ]

\* a finished run over several providers and hours in which every fetch and
\* every retry failed
C5_Witness ==
    /\ Hourly
    /\ pc = "done"
    /\ Len(services) >= 2
    /\ Len(local_dates) >= 2
    /\ OnlyTransportFailures
    /\ \A p \in Range(services) : Len(HistoryOf(p)) = 3
    /\ detailed.forecasts = [ h \in Range(local_dates) |-> << >> ]

----------------------------------------------------------------------------
(* C6: for a provider whose first retrieve_document returned, the document *)
(* is fetched once; the calls that follow are find_in_document, one per    *)
(* requested hour in range order, each on that document, with no other     *)
(* call in between; without a fatal error every hour is searched.          *)
C6_OneFetchThenEveryHour ==
    Hourly =>
      \A p \in Range(services) :
        LET ev == HistoryOf(p)
        IN  (ev # << >> /\ ev[1].result = "document") =>
              /\ Len(ev) <= 1 + Len(local_dates)
              /\ \A j \in 2..Len(ev) :
                    /\ ev[j].op = "find_in_document"
                    /\ ev[j].doc = ev[1].doc
                    /\ ev[j].hour = local_dates[j - 1]
              /\ \A i \in DOMAIN calls :
                    (calls[i].op = "retrieve_document" /\ calls[i].doc = ev[1].doc)
                       => calls[i].service = p
              /\ \A i, j \in CallsOf(p) : \A k \in i..j : k \in CallsOf(p)
              /\ (raised = NoError /\ (pc = "done" \/ si > IndexOf(p))) =>
                    Len(ev) = 1 + Len(local_dates)

\* two providers fetched at the first attempt, each searched for every hour
C6_Witness ==
    /\ Hourly
    /\ pc = "done"
    /\ Len(local_dates) >= 2
    /\ Len(services) >= 2
    /\ \A p \in Range(services) :
          /\ HistoryOf(p)[1].result = "document"
          /\ Len(HistoryOf(p)) = 1 + Len(local_dates)

----------------------------------------------------------------------------
(* Vocabulary of the single-hour properties                                *)

\* the error kind the specification names for "no provider had data"
NoData == "NoData"

\* the providers whose retrieve raised OutOfRange
NotFoundProviders ==
    { calls[i].service : i \in { j \in DOMAIN calls : calls[j].result = OutOfRange } }

\* the temperatures of the records with ok = true, in list order
OkTemperatures(forecasts) ==
    LET oks == SelectSeq(forecasts, LAMBDA r : r.ok)
    IN  [ i \in DOMAIN oks |-> oks[i].temperature_celcius ]

\* _compute_aggregates has run (it returned or it raised)
Computed == Single /\ detailed # Unset /\ pc \in { "done", "raised" }

----------------------------------------------------------------------------
(* C7: in the single-hour result, every provider whose retrieve raised     *)
(* OutOfRange has an entry with ok = false in the record list, and the     *)
(* statistics are those of the other providers.                            *)
C7_NotFoundRecorded ==
    (Single /\ detailed # Unset) =>
       /\ Cardinality({ j \in DOMAIN detailed.forecasts : ~ detailed.forecasts[j].ok })
             >= Cardinality(NotFoundProviders)
       /\ aggregated # Unset =>
             /\ aggregated.max = SeqMax(OkTemperatures(detailed.forecasts))
             /\ aggregated.min = SeqMin(OkTemperatures(detailed.forecasts))
             /\ aggregated.average = Average(OkTemperatures(detailed.forecasts))

----------------------------------------------------------------------------
(* C8: when at least one record of the single-hour result has ok = true,   *)
(* _compute_aggregates returns, and average, max and min are those of the  *)
(* temperatures of the records with ok = true.                             *)
C8_StatisticsOverOkRecords ==
    (Computed /\ OkTemperatures(detailed.forecasts) # << >>) =>
       /\ raised = NoError
       /\ aggregated # Unset
       /\ aggregated.max = SeqMax(OkTemperatures(detailed.forecasts))
       /\ aggregated.min = SeqMin(OkTemperatures(detailed.forecasts))
       /\ aggregated.average = Average(OkTemperatures(detailed.forecasts))

----------------------------------------------------------------------------
(* C9: when every provider of the list raised OutOfRange (or the list is   *)
(* empty), the single-hour aggregation fails with the NoData kind.         *)
C9_NoDataWhenNoProvider ==
    (Computed /\ \A i \in DOMAIN calls : calls[i].result = OutOfRange) =>
       raised = NoData

----------------------------------------------------------------------------
(* C10: with k >= 1 successful providers, min and max are the smallest and *)
(* the largest temperature and average is their mean rounded to            *)
(* DECIMAL_PLACES fractional digits, the precision of the adapters.        *)
C10_AverageAtConfiguredPrecision ==
    (Single /\ pc = "done") =>
       LET temperatures == OkTemperatures(detailed.forecasts)
       IN  /\ aggregated.max = SeqMax(temperatures)
           /\ aggregated.min = SeqMin(temperatures)
           /\ aggregated.average =
                 RoundDecimal(SeqSum(temperatures), Len(temperatures), DECIMAL_PLACES)

\* the providers named by the records of a single-hour result, in order
ServicesOf(forecasts) == [ i \in DOMAIN forecasts |-> forecasts[i].service ]

----------------------------------------------------------------------------
(* C11: in a single-hour aggregation the i-th call made is retrieve on the *)
(* i-th provider of the list for the requested hour, so that no provider   *)
(* is asked twice or out of turn; once _fetch_forecast has returned every  *)
(* provider was asked exactly once; and the records of the result name     *)
(* their providers in the order of the list.                               *)
C11_RetrieveOncePerProviderInOrder ==
    Single =>
      /\ Len(calls) <= Len(services)
      /\ \A i \in DOMAIN calls :
            /\ calls[i].op = "retrieve"
            /\ calls[i].service = services[i]
            /\ calls[i].hour = local_date
      /\ detailed # Unset => Len(calls) = Len(services)
      /\ LET names == ServicesOf(forecast_object.forecasts)
         IN  names = SelectSeq(services, LAMBDA p : p \in Range(names))
      /\ detailed # Unset =>
            LET names == ServicesOf(detailed.forecasts)
            IN  names = SelectSeq(services, LAMBDA p : p \in Range(names))

\* a returned single-hour result of two providers that both returned a record
C11_Witness ==
    /\ Single
    /\ pc = "done"
    /\ Len(services) >= 2
    /\ Len(calls) = Len(services)
    /\ Len(detailed.forecasts) >= 2

----------------------------------------------------------------------------
(* Vocabulary of the properties of single calls                            *)

\* the call of function `f` has returned a value
ReturnedFrom(f) ==
    /\ pc = "returned"
    /\ call.op = f
    /\ call_result.kind = "return"

\* the hours first, first + 1, ... of a range of `n` hours
HoursFrom(first, n) == [ i \in 1..n |-> first + i - 1 ]

\* the instants an encoding of the target hour stands for: epoch seconds and
\* UTC strings name one instant, a from/to pair the instant of its `from`, a
\* local string with a numeric offset the wall clock less the offset, a local
\* string without offset every instant at which the clocks of the time zone
\* show it
Denoted(provider, timezone, encoding) ==
    CASE provider = ACCUWEATHER ->
            IF encoding % 3600 = 0 THEN { encoding \div 3600 } ELSE {}
      [] provider = YRNO -> { encoding[1].utc }
      [] provider \in { WEATHERCOM, AERIS } -> { encoding.wall - encoding.offset }
      [] provider = GWC -> InstantsAt(timezone, encoding.wall)
      [] OTHER -> { encoding.utc }

----------------------------------------------------------------------------
(* C17: local_string_to_range_of_local_strings called with a start and an  *)
(* end hour, end >= start, returns every hour from start to end inclusive  *)
(* in increasing order: hours_between(start, end) + 1 elements, the last   *)
(* of which is the end hour.                                               *)
C17_RangeToEndInclusive ==
    (/\ ReturnedFrom("local_string_to_range_of_local_strings")
     /\ call.time_local_end # None
     /\ The(call.time_local_end) >= call.time_local_start) =>
       call_result.value =
          HoursFrom(call.time_local_start,
                    The(call.time_local_end) - call.time_local_start + 1)

----------------------------------------------------------------------------
----------------------------------------------------------------------------
(* C19: for every adapter, time zone and target local hour, the encoding   *)
(* of the hour that is looked up in the document stands for exactly one    *)
(* instant, the one the canonical UTC string of the record names.          *)
C19_EncodingsAgree ==
    ReturnedFrom("target_time") =>
       Denoted(call.service, call.timezone, call_result.value.target_time_formatted)
          = { call_result.value.target_time_utc.utc }

----------------------------------------------------------------------------
(* C20: hours_since_utc_datetime and decaminutes_since_utc_datetime return *)
(* an integer, the elapsed minutes divided by 60 and by 10 and truncated   *)
(* toward zero.                                                            *)
C20_ElapsedIsTruncatedInteger ==
    /\ ReturnedFrom("hours_since_utc_datetime") =>
          /\ call_result.value.whole = (call.now - call.then) \div 60
          /\ call_result.value.tenths = 0
    /\ ReturnedFrom("decaminutes_since_utc_datetime") =>
          /\ call_result.value.whole = (call.now - call.then) \div 10
          /\ call_result.value.tenths = 0

\* the call of retrieve or of find_in_document has returned or raised
Extracted ==
    /\ pc = "returned"
    /\ call.op \in { "retrieve", "find_in_document" }

\* the record the specification expects for a source temperature `raw`
ExpectedRecord(provider, target_local_time, raw, places) ==
    [ ok |-> TRUE,
      time_utc |-> local_string_to_utc_string(target_local_time),
      temperature_celcius |-> IF provider = GWC
                              THEN RoundFarenheitAsCelcius(raw, places)
                              ELSE RoundDecimal(raw, 1, places) ]

----------------------------------------------------------------------------
(* C12: every record that retrieve or find_in_document of any adapter      *)
(* returns with ok = true holds a time_utc and a temperature_celcius (a    *)
(* field that is null is left out of the records of the model).            *)
C12_OkRecordsAreComplete ==
    (Extracted /\ call_result.kind = "return" /\ call_result.value.ok) =>
       { "time_utc", "temperature_celcius" } \subseteq DOMAIN call_result.value

\* a record with ok = true returned from a document that also holds an entry
\* without a temperature
C12_Witness ==
    /\ Extracted
    /\ call_result.kind = "return"
    /\ call_result.value.ok
    /\ \E i \in DOMAIN call.forecasts : call.forecasts[i].temperature = None

----------------------------------------------------------------------------
(* C13: for every adapter and every well-formed document with an entry at  *)
(* the target hour, whatever its source temperature (0 and negative values *)
(* included), the extraction returns the record with ok = true, the UTC    *)
(* string of the target hour and the source value (converted to Celsius    *)
(* for GWC) rounded to DECIMAL_PLACES.                                     *)
C13_ExactMatchIsExtracted ==
    Extracted =>
      \A i \in DOMAIN call.forecasts :
         (/\ call.forecasts[i].time = call.target_local_time
          /\ call.forecasts[i].temperature # None) =>
            call_result =
               Return(ExpectedRecord(call.service, call.target_local_time,
                                     The(call.forecasts[i].temperature),
                                     DECIMAL_PLACES))

----------------------------------------------------------------------------
(* C14: for every adapter, the extraction on a well-formed document whose  *)
(* latest hour precedes the target hour raises OutOfRange, and the error   *)
(* gives the hour of the last entry of the document as the latest one.     *)
C14_PastDocumentRaisesNotFound ==
    (/\ Extracted
     /\ call.forecasts # << >>
     /\ \A i \in DOMAIN call.forecasts :
           /\ call.forecasts[i].time < call.target_local_time
           /\ call.forecasts[i].temperature # None) =>
       call_result =
          RaiseOutOfRange(local_string_to_utc_string(
                             call.forecasts[Len(call.forecasts)].time))

----------------------------------------------------------------------------
(* C15: every provider exposes retrieve_document, find_in_document and     *)
(* retrieve, so that no call of an aggregation run, with the default       *)
(* provider lists in particular, fails for a missing operation.            *)
C15_EveryOperationExposed ==
    (Hourly \/ Single) =>
       /\ \A i \in DOMAIN calls : calls[i].result # AttributeError
       /\ raised # AttributeError

----------------------------------------------------------------------------
(* C16: for every adapter whose key is configured, fetch raises HttpError  *)
(* when the status is not a success status and when the status is a        *)
(* success status but the body is empty.                                   *)
C16_EmptyBodyIsTransportError ==
    (/\ pc = "returned"
     /\ call.op = "fetch"
     /\ call.has_key
     /\ (~ call.status_ok \/ BodyIsEmpty(call.service, call.body))) =>
       call_result = Raise(HttpError)

\* the cells of the page are the en dash or numbers
CellsParse(days) ==
    \A d \in DOMAIN days : \A i \in DOMAIN days[d].cells :
       days[d].cells[i].text # "em dash"

\* every day block of the page has as many cells as hour labels
CountsMatch(days) ==
    \A d \in DOMAIN days : Len(days[d].labels) = Len(days[d].cells)

\* the (hour, temperature) pairs of the cells of a day that hold a number
RECURSIVE NumberedCells(_, _)
NumberedCells(labels, cells) ==
    IF labels = << >> \/ cells = << >> THEN << >>
    ELSE (IF Head(cells).text = "number"
          THEN << [ time |-> Head(labels),
                    temperature |-> Some(Head(cells).number) ] >>
          ELSE << >>)
         \o NumberedCells(Tail(labels), Tail(cells))

RECURSIVE NumberedCellsOfPage(_)
NumberedCellsOfPage(days) ==
    IF days = << >> THEN << >>
    ELSE NumberedCells(Head(days).labels, Head(days).cells)
         \o NumberedCellsOfPage(Tail(days))

----------------------------------------------------------------------------
(* C21: when a day block of a BOM page whose cells all parse has a number  *)
(* of hour labels different from its number of temperature cells,          *)
(* soup_to_forecast_object raises BadResponse and returns no entry.        *)
C21_CountMismatchIsBadResponse ==
    (/\ pc = "returned"
     /\ call.op = "soup_to_forecast_object"
     /\ CellsParse(call.days)
     /\ ~ CountsMatch(call.days)) =>
       call_result = Raise(BadResponse)

----------------------------------------------------------------------------
(* C22: on a BOM page with a dash cell whose day blocks have as many cells *)
(* as labels (one at least),                                               *)
(* soup_to_forecast_object raises nothing, leaves the hours of the dash    *)
(* cells (en dash or em dash) out and returns every other hour with the    *)
(* temperature of the cell at its position.                                *)
C22_DashCellsAreLeftOut ==
    (/\ pc = "returned"
     /\ call.op = "soup_to_forecast_object"
     /\ CountsMatch(call.days)
     /\ \A d \in DOMAIN call.days : call.days[d].labels # << >>
     /\ \E d \in DOMAIN call.days : \E i \in DOMAIN call.days[d].cells :
           call.days[d].cells[i] \in { EnDash, EmDash }) =>
       call_result = Return(NumberedCellsOfPage(call.days))

----------------------------------------------------------------------------
(* Yr.no: the node the record is taken from                                *)

\* the (from, to) pair encoded for the target hour of the call
TargetPair ==
    << format_standard(local_string_to_utc_string(call.target_local_time)),
       format_standard(local_string_to_utc_string(call.target_local_time) + 1) >>

\* the positions of the nodes whose bounds are the pair of the target hour
PairNodes ==
    { i \in DOMAIN call.nodes : /\ call.nodes[i].from = TargetPair[1]
                                /\ call.nodes[i].to = TargetPair[2] }

(* C23: when find_in_document of Yr.no returns a record, the document has  *)
(* a <time> node whose `from` is the first and whose `to` is the second    *)
(* element of the pair of the target hour, and the temperature of the      *)
(* record is the one of such a node.                                       *)
C23_RecordFromNodeOfThePair ==
    (/\ pc = "returned" /\ call.op = "yrno.find_in_document"
     /\ call_result.kind = "return") =>
       \E i \in PairNodes :
          /\ call.nodes[i].temperature # None
          /\ call_result = Found(YRNO, call.target_local_time,
                                 The(call.nodes[i].temperature), DECIMAL_PLACES)

----------------------------------------------------------------------------
(* Weather.com: the document of the two fetches                            *)

\* the fetched series of the call, Celsius and Fahrenheit
FetchedCelcius == The(call.celcius.value.temperature)
FetchedFarenheit == The(call.farenheit.value.temperature)

\* toCelsius((toFahrenheit(c) + f) / 2) of two fetched degrees
AverageInCelcius(c, f) ==
    farenheit_to_celcius(half_sum(celcius_to_farenheit(Fraction(c)), Fraction(f)))

(* C24: when retrieve_document of Weather.com returns, it has made two     *)
(* fetches and its document is the Celsius document with only the          *)
(* temperature series changed, to a series as long as the fetched Celsius  *)
(* series whose element i is toCelsius((toFahrenheit(c[i]) + f[i]) / 2).   *)
C24_AverageOfTheTwoSeries ==
    (/\ pc = "returned" /\ call.op = "weathercom.retrieve_document"
     /\ call_result.kind = "return") =>
       /\ nfetch = 2
       /\ call_result.value.processTime = call.celcius.value.processTime
       /\ DOMAIN call_result.value = DOMAIN call.celcius.value
       /\ Len(The(call_result.value.temperature)) = Len(FetchedCelcius)
       /\ \A i \in DOMAIN The(call_result.value.temperature) :
             The(call_result.value.temperature)[i] =
                AverageInCelcius(The(FetchedCelcius[i]), The(FetchedFarenheit[i]))

----------------------------------------------------------------------------
(* Isolation of the providers of an hour-range run                         *)

\* the calls of find_in_document made on provider `p` for hour `h`
SearchesOf(p, h) ==
    { i \in CallsOf(p) : calls[i].op = "find_in_document" /\ calls[i].hour = h }

\* `p` was asked for its document and, once it returned one, for every hour
AskedThrough(p) ==
    /\ \E i \in CallsOf(p) : calls[i].op = "retrieve_document"
    /\ (\E i \in CallsOf(p) : calls[i].result = "document") =>
          \A h \in Range(local_dates) : SearchesOf(p, h) # {}

\* the cell of `p` at hour `h` is what the outcomes of `p` alone give: the
\* record its search of the hour returned, or no cell
CellFromOwnOutcomes(p, h) ==
    LET found == { i \in SearchesOf(p, h) : calls[i].result = "record" }
    IN  IF found = {}
        THEN p \notin DOMAIN detailed.forecasts[h]
        ELSE /\ p \in DOMAIN detailed.forecasts[h]
             /\ \E i \in found :
                   detailed.forecasts[h][p] = WithService(calls[i].value, p)

----------------------------------------------------------------------------
(* C26: every cell forecasts[h][P] of the hour-range result holds a record *)
(* with ok = true, service = P and time_utc the UTC time of hour h; no     *)
(* cell holds an {ok: false} record.                                       *)
C26_CellsHoldOkRecords ==
    Hourly =>
      \A c \in Cells(forecast_object.forecasts) :
         LET record == forecast_object.forecasts[c[1]][c[2]]
         IN  /\ record.ok
             /\ record.service = c[2]
             /\ record.time_utc = local_string_to_utc_string(c[1])

----------------------------------------------------------------------------
(* Credential rotation of an hour-range run                                *)

\* the providers on whose transport error a rotation was requested
RotatedFor == { calls[i].service : i \in { j \in DOMAIN calls : calls[j].op = "refresh" } }

(* C27: every rotation requested after a transport error of provider P is  *)
(* the rotation of the credential of P, and the current credential of a    *)
(* provider that had no transport error is the one of the start.           *)
C27_RotationOfOwnCredential ==
    Hourly =>
      /\ \A i \in DOMAIN calls :
            calls[i].op = "refresh" => calls[i].key = calls[i].service
      /\ \A k \in KeyNames \ RotatedFor : current_key[k] = 0

----------------------------------------------------------------------------
(* C28: in an hour-range run a rotation is requested only right after a    *)
(* transport error of the first retrieve_document of the provider; any     *)
(* other exception of retrieve_document, on the first call or on the retry *)
(* that follows the rotation, ends the run with that exception and nothing *)
(* is called after it.                                                     *)
C28_OnlyTransportErrorIsRetried ==
    Hourly =>
      \A i \in DOMAIN calls :
         /\ calls[i].op = "refresh" =>
               /\ i > 1
               /\ calls[i - 1].op = "retrieve_document"
               /\ calls[i - 1].result = HttpError
               /\ calls[i - 1].service = calls[i].service
         /\ (/\ calls[i].op = "retrieve_document"
             /\ IsRaise(calls[i])
             /\ calls[i].result # HttpError) =>
               /\ i = Len(calls)
               /\ pc = "raised"
               /\ raised = calls[i].result

\* the retry that followed a rotation raised another kind than a transport
\* error and the run ended with it
C28_Witness ==
    /\ Hourly
    /\ pc = "raised"
    /\ Len(calls) >= 3
    /\ calls[Len(calls) - 2].result = HttpError
    /\ calls[Len(calls) - 1].op = "refresh"
    /\ calls[Len(calls)].op = "retrieve_document"
    /\ calls[Len(calls)].result \in { MissingAPIKey, BadResponse }
    /\ raised = calls[Len(calls)].result

----------------------------------------------------------------------------
(* C29: in a single-hour run that no exception has ended, `services` and   *)
(* `forecasts` of the result have the same length, forecasts[i].service is *)
(* services[i] for every i, and a provider whose retrieve raised           *)
(* OutOfRange is in neither list; the `services` of a returned hour-range  *)
(* result is the supplied list of providers, in order, the providers       *)
(* skipped after a failed retry included.                                  *)
C29_ServicesAlignedWithForecasts ==
    /\ (Single /\ pc # "raised") =>
          /\ Len(forecast_object.services) = Len(forecast_object.forecasts)
          /\ ServicesOf(forecast_object.forecasts) = forecast_object.services
          /\ \A i \in DOMAIN calls :
                calls[i].result = OutOfRange =>
                   /\ calls[i].service \notin Range(forecast_object.services)
                   /\ calls[i].service \notin
                         Range(ServicesOf(forecast_object.forecasts))
          /\ detailed # Unset =>
                /\ detailed.services = forecast_object.services
                /\ detailed.forecasts = forecast_object.forecasts
    /\ (Hourly /\ pc = "done") => detailed.services = services

\* a returned single-hour result of a provider that raised OutOfRange and
\* of a later provider that returned a record
C29_Witness ==
    /\ Single
    /\ pc = "done"
    /\ \E i, j \in DOMAIN calls :
          /\ i < j
          /\ calls[i].result = OutOfRange
          /\ calls[j].result = "record"
    /\ detailed.services # << >>

\* a returned hour-range result that lists a provider skipped after a
\* failed retry
C29_WitnessHourly ==
    /\ Hourly
    /\ pc = "done"
    /\ \E p \in Range(detailed.services) :
          /\ Len(HistoryOf(p)) = 3
          /\ HistoryOf(p)[3].result = HttpError

----------------------------------------------------------------------------
(* C30: the extraction of Accuweather, Met and GWC on a document whose     *)
(* hourly list is empty raises OutOfRange.                                 *)
C30_EmptyListRaisesNotFound ==
    (/\ Extracted
     /\ call.service \in { ACCUWEATHER, MET, GWC }
     /\ call.forecasts = << >>) =>
       /\ call_result.kind = "raise"
       /\ call_result.exc = OutOfRange

====
